---- MODULE Spec2Model ----
(***************************************************************************)
(* State-machine model of the RointeHeater climate entity of               *)
(* custom_components/rointe/climate.py: the update reconciler              *)
(* (_handle_update) and the three command coroutines (async_set_hvac_mode, *)
(* async_set_preset_mode, async_set_temperature) with their awaits on      *)
(* ws.send.                                                                *)
(*                                                                         *)
(* Temperatures are integers in tenths of a degree Celsius (20.0 -> 200).  *)
(* A Python string whose characters matter (the status) is a tuple of      *)
(* one-character strings, so that str.lower() is computed character by     *)
(* character.  A Python value is a record [t, n, s]: its type tag, its     *)
(* number and its characters.                                              *)
(*                                                                         *)
(* A command coroutine takes two steps: from its call to the await of      *)
(* ws.send, and from the return or the raise of that send to its end.      *)
(* Updates and other commands may run between the two.  Whether ws.send    *)
(* returns or raises, and whether async_write_ha_state returns or raises,  *)
(* is the environment's choice.                                            *)
(*                                                                         *)
(* async_setup_entry is a second machine, over the list of device records: *)
(* one step per iteration of its for loop.  The specifications of the      *)
(* entity leave the setup at rest, and SpecSetup leaves the entity at      *)
(* rest.                                                                   *)
(***************************************************************************)
EXTENDS Integers, Sequences, FiniteSets, Bags, TLC

VARIABLES
    _attr_hvac_mode,            \* self._attr_hvac_mode
    _attr_preset_mode,          \* self._attr_preset_mode
    _attr_hvac_action,          \* self._attr_hvac_action
    _attr_current_temperature,  \* self._attr_current_temperature
    _attr_target_temperature,   \* self._attr_target_temperature
    _current_temp,              \* self._current_temp
    _target_temp,               \* self._target_temp
    _available,                 \* self._available (the flag the handlers set;
                                \* _attr_available is never assigned again)
    _device_status,             \* self._device_status
    _online,                    \* self._online
    _last_seen,                 \* self._last_seen
    _device_model,              \* self._device_model
    _device_category,           \* self._device_category
    calls,                      \* the bag of ws.send calls being awaited, each
                                \* with the frame of the coroutine awaiting it
    last,                       \* what the last step was and what it did
    sent,                       \* the updates ws.send was last called with
                                \* (followed in SpecOverlap only)
    devices,                    \* async_setup_entry: data["devices"]
    index,                      \* async_setup_entry: the position of the for
                                \* loop in devices
    entities,                   \* async_setup_entry: the entities list
    added,                      \* the lists async_add_entities was called with
    pc                          \* async_setup_entry: "entry", "for", "done"

vars == << _attr_hvac_mode, _attr_preset_mode, _attr_hvac_action,
           _attr_current_temperature, _attr_target_temperature,
           _current_temp, _target_temp, _available,
           _device_status, _online, _last_seen, _device_model,
           _device_category, calls, last, sent,
           devices, index, entities, added, pc >>

\* The state of one heater entity.
heater == << _attr_hvac_mode, _attr_preset_mode, _attr_hvac_action,
             _attr_current_temperature, _attr_target_temperature,
             _current_temp, _target_temp, _available,
             _device_status, _online, _last_seen, _device_model,
             _device_category, calls, last >>

\* The state of the platform setup.
setup == << devices, index, entities, added, pc >>

\* What the constructor derives from the device record and nothing assigns
\* afterwards.
device_info == << _device_model, _device_category >>

\* The fields of the entity state that updates and commands reconcile.
entity == << _attr_hvac_mode, _attr_preset_mode, _attr_hvac_action,
             _attr_current_temperature, _attr_target_temperature,
             _current_temp, _target_temp >>

----------------------------------------------------------------------------
\* Bounds of the model.

\* The number of ws.send calls that are awaited at the same time.
MaxCalls == 2

\* The number of device records the setup is given.
MaxDevices == 3

----------------------------------------------------------------------------
\* Python values.

Num(n)  == [t |-> "num",  n |-> n, s |-> <<>>]
Bool(b) == [t |-> "bool", n |-> IF b THEN 1 ELSE 0, s |-> <<>>]
Str(s)  == [t |-> "str",  n |-> 0, s |-> s]
Dict(n) == [t |-> "dict", n |-> n, s |-> <<>>]
NaN     == [t |-> "nan",  n |-> 0, s |-> <<>>]
None    == [t |-> "none", n |-> 0, s |-> <<>>]

\* isinstance(v, (int, float)): bool is a subclass of int, nan is a float.
IsNumber(v) == v.t \in {"num", "bool", "nan"}

\* isinstance(v, str)
IsStr(v) == v.t = "str"

\* float(v) of a number, in tenths: float(True) is 1.0.
Float(v) == IF v.t = "bool" THEN Num(10 * v.n) ELSE v

\* lo <= v <= hi for a float v: every comparison with nan is False.
Between(lo, v, hi) == v.t = "num" /\ lo <= v.n /\ v.n <= hi

\* str.lower(), character by character.
LowerChar(c) ==
    CASE c = "A" -> "a"  [] c = "B" -> "b"  [] c = "C" -> "c"
      [] c = "D" -> "d"  [] c = "E" -> "e"  [] c = "F" -> "f"
      [] c = "G" -> "g"  [] c = "H" -> "h"  [] c = "I" -> "i"
      [] c = "J" -> "j"  [] c = "K" -> "k"  [] c = "L" -> "l"
      [] c = "M" -> "m"  [] c = "N" -> "n"  [] c = "O" -> "o"
      [] c = "P" -> "p"  [] c = "Q" -> "q"  [] c = "R" -> "r"
      [] c = "S" -> "s"  [] c = "T" -> "t"  [] c = "U" -> "u"
      [] c = "V" -> "v"  [] c = "W" -> "w"  [] c = "X" -> "x"
      [] c = "Y" -> "y"  [] c = "Z" -> "z"
      [] OTHER -> c

\* The status compared as delivered, its case kept.
Lower_cased(s) == s

Lower(s) == [i \in 1..Len(s) |-> LowerChar(s[i])]

\* dict.get(key): an absent key yields None, not the prior value.
Get_no_default(state, key, default) ==
    IF key \in DOMAIN state THEN state[key] ELSE None

\* dict.get(key, default)
Get(state, key, default) ==
    IF key \in DOMAIN state THEN state[key] ELSE default

\* bool(v): None, "", 0, False and {} are false.
Truthy(v) ==
    CASE v.t = "none" -> FALSE
      [] v.t = "str"  -> v.s # <<>>
      [] v.t = "nan"  -> TRUE
      [] OTHER        -> v.n # 0

\* sub in s, for two strings.
IsSubstring(sub, s) ==
    \E i \in 0..(Len(s) - Len(sub)) : SubSeq(s, i + 1, i + Len(sub)) = sub

----------------------------------------------------------------------------
\* Constants of the program and of the host's climate component.

HVACMode_OFF       == "off"
HVACMode_HEAT      == "heat"
HVACAction_OFF     == "off"
HVACAction_HEATING == "heating"
PRESET_ECO         == "eco"
PRESET_COMFORT     == "comfort"
PRESET_NONE        == "None"     \* Python's None as a preset

HVAC_MODES   == {HVACMode_OFF, HVACMode_HEAT}
PRESET_MODES == {PRESET_ECO, PRESET_COMFORT}

MIN_TEMP == 50
MAX_TEMP == 350

\* self._attr_min_temp, self._attr_max_temp, read through min_temp / max_temp
_attr_min_temp == 70
_attr_max_temp == 300

device_id == "dev1"

comfort == <<"c", "o", "m", "f", "o", "r", "t">>
eco     == <<"e", "c", "o">>
ice     == <<"i", "c", "e">>

\* The wire messages of the command translator.
WireComfort == [status |-> Str(comfort), power |-> Num(2)]
WireEco     == [status |-> Str(eco), power |-> Num(1)]
WireNothing == [k \in {} |-> None]     \* updates = {}

----------------------------------------------------------------------------
\* What a step records about itself.

\* op, via: the method and the entry point it was called through; state, arg,
\* temperature: its argument; send: what the step saw of ws.send ("none",
\* "called" and awaited, "returned", "raised"); outcome: how the step ended
\* ("awaiting", "returned", "caught", or the error raised to the caller);
\* writes, scheduled: its calls of async_write_ha_state and of
\* schedule_update_ha_state.
Step(op, via, state, arg, temperature, send, outcome, writes, scheduled) ==
    [op |-> op, via |-> via, state |-> state, arg |-> arg,
     temperature |-> temperature, send |-> send, outcome |-> outcome,
     writes |-> writes, scheduled |-> scheduled]

NoState == [k \in {} |-> None]

\* A ws.send call and the frame of the coroutine that awaits it.
Call(op, via, arg, temperature, updates) ==
    [device_id |-> device_id, updates |-> updates, op |-> op, via |-> via,
     arg |-> arg, temperature |-> temperature]

\* The awaited calls once one more has been made.
Called(call) == calls (+) SetToBag({call})

\* call is awaited by a coroutine of op.
Pending(call, op) ==
    /\ call \in BagToSet(calls)
    /\ call.op = op

\* The awaited calls once the coroutine awaiting call has been resumed.
Resumed(call) == calls (-) SetToBag({call})

----------------------------------------------------------------------------
\* RointeHeater.__init__

\* const.DEVICE_MODELS, in the order of its items: the entry "radiator" and,
\* before it, an entry of another category whose key has an upper-case
\* letter.
towel    == <<"T", "o", "w", "e", "l">>
radiator == <<"r", "a", "d", "i", "a", "t", "o", "r">>

DEVICE_MODELS ==
    << <<towel, "towel_rail">>, <<radiator, "radiator">> >>

\* The entries whose lowered key is in the lowered model.
Matches(device_model) ==
    {i \in 1..Len(DEVICE_MODELS) :
       IsSubstring(Lower(DEVICE_MODELS[i][1]), Lower(device_model.s))}

\* self._device_model.lower() of a model that is true and no string.
ConstructionRaises(device_model) ==
    Truthy(device_model) /\ ~IsStr(device_model)

\* The loop without its break: the last matching entry decides.
Category_last_match(device_model) ==
    IF ~Truthy(device_model) \/ Matches(device_model) = {}
      THEN "radiator"
      ELSE DEVICE_MODELS[CHOOSE i \in Matches(device_model) :
                           \A j \in Matches(device_model) : j <= i][2]

\* The category block, for a model on which it does not raise.
Category(device_model) ==
    IF ~Truthy(device_model) \/ Matches(device_model) = {}
      THEN "radiator"
      ELSE DEVICE_MODELS[CHOOSE i \in Matches(device_model) :
                           \A j \in Matches(device_model) : i <= j][2]

\* The entity as the constructor leaves it, given device_info.get("model").
__init__(device_model) ==
    /\ _attr_hvac_mode = HVACMode_OFF
    /\ _attr_current_temperature = 200
    /\ _attr_target_temperature = 210
    /\ _attr_preset_mode = PRESET_ECO
    /\ _attr_hvac_action = HVACAction_OFF
    /\ _current_temp = 200
    /\ _target_temp = 210
    /\ _available = TRUE
    /\ _device_model = device_model
    /\ _device_category = Category(device_model)
    /\ _device_status = Dict(0)
    /\ _online = Bool(TRUE)
    /\ _last_seen = None
    /\ calls = EmptyBag
    /\ last = Step("__init__", "", NoState, "", None, "none", "returned", 0, 0)

\* No setup under way, nothing sent yet.
AtRest ==
    /\ sent = None
    /\ devices = <<>>
    /\ index = 0
    /\ entities = <<>>
    /\ added = <<>>
    /\ pc = "done"

Init == __init__(None) /\ AtRest

----------------------------------------------------------------------------
\* RointeHeater._handle_update

\* MIN_TEMP < temp < MAX_TEMP: the limits themselves dropped.
TempInRange_strict(temp) == Between(MIN_TEMP + 1, temp, MAX_TEMP - 1)

\* MIN_TEMP <= temp only: the upper limit dropped.
TempInRange_no_upper(temp) == temp.t = "num" /\ MIN_TEMP <= temp.n

\* MIN_TEMP <= temp <= MAX_TEMP
TempInRange(temp) == Between(MIN_TEMP, temp, MAX_TEMP)

\* The guard of the two temperature blocks.
Accepted(state, key) ==
    /\ key \in DOMAIN state
    /\ IsNumber(state[key])
    /\ TempInRange(Float(state[key]))

\* The guard of the status block.
HasStatus(state) == "status" \in DOMAIN state /\ IsStr(state["status"])

\* The (mode, preset, action) the status block leaves, given the prior one.
StatusBlock(state, prior) ==
    IF ~HasStatus(state) THEN prior
    ELSE LET status == Lower(state["status"].s) IN
         IF status = comfort
           THEN <<HVACMode_HEAT, PRESET_COMFORT, HVACAction_HEATING>>
         ELSE IF status = eco
           THEN <<HVACMode_HEAT, PRESET_ECO, HVACAction_HEATING>>
         ELSE IF status = ice
           THEN <<HVACMode_OFF, PRESET_NONE, HVACAction_OFF>>
         ELSE prior

\* The update handled without marking the entity available.
_handle_update_keeps_availability(state, write_ok) ==
    LET mpa == StatusBlock(state,
                 <<_attr_hvac_mode, _attr_preset_mode, _attr_hvac_action>>)
    IN
    /\ _device_status' = Get(state, "deviceStatus", _device_status)
    /\ _online' = Get(state, "online", _online)
    /\ _last_seen' = Get(state, "lastSeen", _last_seen)
    /\ IF Accepted(state, "temp")
         THEN /\ _current_temp' = Float(state["temp"]).n
              /\ _attr_current_temperature' = Float(state["temp"]).n
         ELSE UNCHANGED <<_current_temp, _attr_current_temperature>>
    /\ IF Accepted(state, "um_max_temp")
         THEN /\ _target_temp' = Float(state["um_max_temp"]).n
              /\ _attr_target_temperature' = Float(state["um_max_temp"]).n
         ELSE UNCHANGED <<_target_temp, _attr_target_temperature>>
    /\ _attr_hvac_mode' = mpa[1]
    /\ _attr_preset_mode' = mpa[2]
    /\ _attr_hvac_action' = mpa[3]
    /\ last' = Step("_handle_update", "", state, "", None, "none",
                    IF write_ok THEN "returned" ELSE "caught", 1, 0)
    /\ UNCHANGED <<calls, _available>>
    /\ UNCHANGED device_info

\* write_ok: whether async_write_ha_state returns (TRUE) or raises (FALSE).
_handle_update(state, write_ok) ==
    LET mpa == StatusBlock(state,
                 <<_attr_hvac_mode, _attr_preset_mode, _attr_hvac_action>>)
    IN
    /\ _device_status' = Get(state, "deviceStatus", _device_status)
    /\ _online' = Get(state, "online", _online)
    /\ _last_seen' = Get(state, "lastSeen", _last_seen)
    /\ IF Accepted(state, "temp")
         THEN /\ _current_temp' = Float(state["temp"]).n
              /\ _attr_current_temperature' = Float(state["temp"]).n
         ELSE UNCHANGED <<_current_temp, _attr_current_temperature>>
    /\ IF Accepted(state, "um_max_temp")
         THEN /\ _target_temp' = Float(state["um_max_temp"]).n
              /\ _attr_target_temperature' = Float(state["um_max_temp"]).n
         ELSE UNCHANGED <<_target_temp, _attr_target_temperature>>
    /\ _attr_hvac_mode' = mpa[1]
    /\ _attr_preset_mode' = mpa[2]
    /\ _attr_hvac_action' = mpa[3]
    /\ _available' = TRUE
    /\ last' = Step("_handle_update", "", state, "", None, "none",
                    IF write_ok THEN "returned" ELSE "caught", 1, 0)
    /\ UNCHANGED calls
    /\ UNCHANGED device_info

----------------------------------------------------------------------------
\* RointeHeater.hvac_action (the property the host reads)

hvac_action ==
    IF _attr_hvac_mode = HVACMode_OFF THEN HVACAction_OFF
    ELSE HVACAction_HEATING

----------------------------------------------------------------------------
\* RointeHeater.async_set_hvac_mode, async_turn_on, async_turn_off

\* The updates mapping the mode is translated to.
hvac_updates(hvac_mode) ==
    IF hvac_mode = HVACMode_HEAT THEN WireComfort
    ELSE IF hvac_mode = HVACMode_OFF THEN WireEco
    ELSE WireNothing

\* OFF leaving the preset it found instead of clearing it.
hvac_result_keeps_preset(hvac_mode) ==
    IF hvac_mode = HVACMode_HEAT
      THEN <<hvac_mode, PRESET_COMFORT, HVACAction_HEATING>>
      ELSE <<hvac_mode, _attr_preset_mode, HVACAction_OFF>>

\* The (mode, preset, action) written once the send has returned.
hvac_result(hvac_mode) ==
    IF hvac_mode = HVACMode_HEAT
      THEN <<hvac_mode, PRESET_COMFORT, HVACAction_HEATING>>
      ELSE <<hvac_mode, PRESET_NONE, HVACAction_OFF>>

\* From the call to the await of ws.send (or to the early return).
async_set_hvac_mode(hvac_mode, via) ==
    /\ IF hvac_mode \notin HVAC_MODES
      THEN /\ last' = Step("set_hvac_mode", via, NoState, hvac_mode, None,
                           "none", "returned", 0, 0)
           /\ UNCHANGED <<entity, _available, _device_status, _online,
                          _last_seen, calls>>
      ELSE /\ BagCardinality(calls) < MaxCalls
           /\ calls' = Called(Call("set_hvac_mode", via, hvac_mode, None,
                                   hvac_updates(hvac_mode)))
           /\ last' = Step("set_hvac_mode", via, NoState, hvac_mode, None,
                           "called", "awaiting", 0, 0)
           /\ UNCHANGED <<entity, _available, _device_status, _online,
                          _last_seen>>
    /\ UNCHANGED device_info

async_turn_on == async_set_hvac_mode(HVACMode_HEAT, "turn_on")

async_turn_off == async_set_hvac_mode(HVACMode_OFF, "turn_off")

\* The except block without the availability change.
hvac_except_stays_available(call, send, writes, write_ok) ==
    /\ UNCHANGED _available
    /\ last' = Step("set_hvac_mode", call.via, NoState, call.arg, None,
                    send, IF write_ok
                    THEN "RointeDeviceError" ELSE "write error",
                    writes + 1, 0)

\* The except block: mark unavailable, write the state, raise.
\* write_ok: whether its async_write_ha_state returns.
hvac_except(call, send, writes, write_ok) ==
    /\ _available' = FALSE
    /\ last' = Step("set_hvac_mode", call.via, NoState, call.arg, None,
                    send, IF write_ok
                    THEN "RointeDeviceError" ELSE "write error",
                    writes + 1, 0)

\* ws.send returned: the optimistic update and the state write.
async_set_hvac_mode_sent(call, write_ok, write2_ok) ==
    /\ Pending(call, "set_hvac_mode")
    /\ calls' = Resumed(call)
    /\ _attr_hvac_mode' = hvac_result(call.arg)[1]
    /\ _attr_preset_mode' = hvac_result(call.arg)[2]
    /\ _attr_hvac_action' = hvac_result(call.arg)[3]
    /\ IF write_ok
         THEN /\ last' = Step("set_hvac_mode", call.via, NoState,
                              call.arg, None, "returned", "returned", 1, 0)
              /\ UNCHANGED _available
         ELSE hvac_except(call, "returned", 1, write2_ok)
    /\ UNCHANGED <<_attr_current_temperature, _attr_target_temperature,
                   _current_temp, _target_temp, _device_status, _online,
                   _last_seen>>
    /\ UNCHANGED device_info

\* ws.send raised.
async_set_hvac_mode_failed(call, write_ok) ==
    /\ Pending(call, "set_hvac_mode")
    /\ calls' = Resumed(call)
    /\ hvac_except(call, "raised", 0, write_ok)
    /\ UNCHANGED <<entity, _device_status, _online, _last_seen>>
    /\ UNCHANGED device_info

----------------------------------------------------------------------------
\* RointeHeater.async_set_preset_mode

\* ECO translated to the wire message of COMFORT.
preset_updates_all_comfort(preset_mode) ==
    IF preset_mode \in {PRESET_COMFORT, PRESET_ECO} THEN WireComfort
    ELSE WireNothing

\* The updates mapping the preset is translated to.
preset_updates(preset_mode) ==
    IF preset_mode = PRESET_COMFORT THEN WireComfort
    ELSE IF preset_mode = PRESET_ECO THEN WireEco
    ELSE WireNothing

\* The else branch switching the mode off but leaving the action HEATING.
preset_result_stays_heating(preset_mode) ==
    IF preset_mode \in {PRESET_COMFORT, PRESET_ECO}
      THEN <<HVACMode_HEAT, preset_mode, HVACAction_HEATING>>
      ELSE <<HVACMode_OFF, preset_mode, HVACAction_HEATING>>

\* The (mode, preset, action) written once the send has returned.
preset_result(preset_mode) ==
    IF preset_mode \in {PRESET_COMFORT, PRESET_ECO}
      THEN <<HVACMode_HEAT, preset_mode, HVACAction_HEATING>>
      ELSE <<HVACMode_OFF, preset_mode, HVACAction_OFF>>

async_set_preset_mode(preset_mode) ==
    /\ BagCardinality(calls) < MaxCalls
    /\ calls' = Called(Call("set_preset_mode", "set_preset_mode",
                            preset_mode, None, preset_updates(preset_mode)))
    /\ last' = Step("set_preset_mode", "set_preset_mode", NoState, preset_mode,
                    None, "called", "awaiting", 0, 0)
    /\ UNCHANGED <<entity, _available, _device_status, _online, _last_seen>>
    /\ UNCHANGED device_info

\* The optimistic update made only by the command whose message was sent
\* last.
async_set_preset_mode_sent_if_latest(call, write_ok) ==
    /\ Pending(call, "set_preset_mode")
    /\ calls' = Resumed(call)
    /\ IF call.updates = sent
         THEN /\ _attr_hvac_mode' = preset_result(call.arg)[1]
              /\ _attr_preset_mode' = preset_result(call.arg)[2]
              /\ _attr_hvac_action' = preset_result(call.arg)[3]
         ELSE UNCHANGED <<_attr_hvac_mode, _attr_preset_mode,
                          _attr_hvac_action>>
    /\ last' = Step("set_preset_mode", call.via, NoState, call.arg,
                    None, "returned",
                    IF write_ok THEN "returned" ELSE "RointeDeviceError", 1, 0)
    /\ UNCHANGED <<_attr_current_temperature, _attr_target_temperature,
                   _current_temp, _target_temp, _available, _device_status,
                   _online, _last_seen>>
    /\ UNCHANGED device_info

async_set_preset_mode_sent(call, write_ok) ==
    /\ Pending(call, "set_preset_mode")
    /\ calls' = Resumed(call)
    /\ _attr_hvac_mode' = preset_result(call.arg)[1]
    /\ _attr_preset_mode' = preset_result(call.arg)[2]
    /\ _attr_hvac_action' = preset_result(call.arg)[3]
    /\ last' = Step("set_preset_mode", call.via, NoState, call.arg,
                    None, "returned",
                    IF write_ok THEN "returned" ELSE "RointeDeviceError", 1, 0)
    /\ UNCHANGED <<_attr_current_temperature, _attr_target_temperature,
                   _current_temp, _target_temp, _available, _device_status,
                   _online, _last_seen>>
    /\ UNCHANGED device_info

async_set_preset_mode_failed(call) ==
    /\ Pending(call, "set_preset_mode")
    /\ calls' = Resumed(call)
    /\ last' = Step("set_preset_mode", call.via, NoState, call.arg,
                    None, "raised", "RointeDeviceError", 0, 0)
    /\ UNCHANGED <<entity, _available, _device_status, _online, _last_seen>>
    /\ UNCHANGED device_info

----------------------------------------------------------------------------
\* RointeHeater.async_set_temperature

\* The update limits MIN_TEMP, MAX_TEMP used for the command too.
ValidTarget_update_limits(temperature) ==
    Between(MIN_TEMP, temperature, MAX_TEMP)

\* self.min_temp <= temperature <= self.max_temp
ValidTarget(temperature) == Between(_attr_min_temp, temperature, _attr_max_temp)

async_set_temperature(temperature) ==
    /\ IF temperature = None \/ ~ValidTarget(temperature)
      THEN /\ last' = Step("set_temperature", "set_temperature", NoState, "",
                           temperature, "none", "returned", 0, 0)
           /\ UNCHANGED <<entity, _available, _device_status, _online,
                          _last_seen, calls>>
      ELSE /\ BagCardinality(calls) < MaxCalls
           /\ _target_temp' = temperature.n
           /\ _attr_target_temperature' = temperature.n
           /\ calls' = Called(Call("set_temperature", "set_temperature", "",
                                   temperature,
                                   [um_max_temp |-> temperature]))
           /\ last' = Step("set_temperature", "set_temperature", NoState, "",
                           temperature, "called", "awaiting", 0, 0)
           /\ UNCHANGED <<_attr_hvac_mode, _attr_preset_mode,
                          _attr_hvac_action, _attr_current_temperature,
                          _current_temp, _available, _device_status, _online,
                          _last_seen>>
    /\ UNCHANGED device_info

async_set_temperature_sent(call) ==
    /\ Pending(call, "set_temperature")
    /\ calls' = Resumed(call)
    /\ last' = Step("set_temperature", call.via, NoState, "",
                    call.temperature, "returned", "returned", 0, 1)
    /\ UNCHANGED <<entity, _available, _device_status, _online, _last_seen>>
    /\ UNCHANGED device_info

\* The failure handled as async_set_hvac_mode handles it.
async_set_temperature_failed_caught(call) ==
    /\ Pending(call, "set_temperature")
    /\ calls' = Resumed(call)
    /\ _available' = FALSE
    /\ last' = Step("set_temperature", call.via, NoState, "",
                    call.temperature, "raised", "RointeDeviceError", 1, 0)
    /\ UNCHANGED <<entity, _device_status, _online, _last_seen>>
    /\ UNCHANGED device_info

\* ws.send raised: nothing catches it.
async_set_temperature_failed(call) ==
    /\ Pending(call, "set_temperature")
    /\ calls' = Resumed(call)
    /\ last' = Step("set_temperature", call.via, NoState, "",
                    call.temperature, "raised", "transport error", 0, 0)
    /\ UNCHANGED <<entity, _available, _device_status, _online, _last_seen>>
    /\ UNCHANGED device_info

----------------------------------------------------------------------------
\* The inputs.

ECO_upper     == <<"E", "C", "O">>
Comfort_mixed == <<"C", "o", "m", "f", "o", "r", "t">>
Ice_mixed     == <<"I", "c", "e">>
off           == <<"o", "f", "f">>

\* Values an update delivers as a temperature: around both limits, and the
\* non-float ones.
Temperatures ==
    {Num(49), Num(50), Num(350), Num(351), Bool(TRUE), NaN,
     Str(<<"2", "1">>)}

Statuses ==
    {Str(comfort), Str(Comfort_mixed), Str(eco), Str(ECO_upper), Str(ice),
     Str(Ice_mixed), Str(off), Str(<<>>), Num(1)}

\* The update mappings: the empty one, every mapping of one key, and some of
\* several keys.
UpdateStates ==
    {NoState}
    \cup {[k \in {"temp"} |-> v] : v \in Temperatures}
    \cup {[k \in {"um_max_temp"} |-> v] : v \in Temperatures}
    \cup {[k \in {"status"} |-> v] : v \in Statuses}
    \cup {[k \in {"deviceStatus"} |-> Dict(1)]}
    \cup {[k \in {"online"} |-> v] : v \in {Bool(FALSE), Bool(TRUE)}}
    \cup {[k \in {"lastSeen"} |-> Str(<<"t">>)]}
    \cup {[k \in {"rssi"} |-> Num(1)]}
    \cup {[temp |-> Num(50), um_max_temp |-> Num(351)],
          [temp |-> Num(351), status |-> Str(ice)],
          [um_max_temp |-> Num(350), status |-> Str(Comfort_mixed)],
          [temp |-> Num(49), um_max_temp |-> Num(50), status |-> Str(off)],
          [temp |-> Num(350), um_max_temp |-> Num(350), status |-> Str(eco),
           deviceStatus |-> Dict(1), online |-> Bool(FALSE),
           lastSeen |-> Str(<<"t">>)]}

\* The updates delivered between and during commands.
CommandUpdates ==
    {NoState}
    \cup {[k \in {"status"} |-> v] :
            v \in {Str(comfort), Str(ECO_upper), Str(ice)}}
    \cup {[k \in {"um_max_temp"} |-> v] : v \in {Num(350), Num(351)}}

HvacModeArgs == {HVACMode_OFF, HVACMode_HEAT, "cool"}

PresetModeArgs == {PRESET_ECO, PRESET_COMFORT, "boost"}

TemperatureArgs == {None, NaN, Num(69), Num(70), Num(300), Num(301)}

Next ==
    \/ \E state \in CommandUpdates, write_ok \in BOOLEAN :
         /\ _handle_update(state, write_ok)
         /\ UNCHANGED <<sent, setup>>
    \/ \E hvac_mode \in HvacModeArgs :
         /\ async_set_hvac_mode(hvac_mode, "set_hvac_mode")
         /\ UNCHANGED <<sent, setup>>
    \/ /\ async_turn_on
       /\ UNCHANGED <<sent, setup>>
    \/ /\ async_turn_off
       /\ UNCHANGED <<sent, setup>>
    \/ \E call \in BagToSet(calls), write_ok \in BOOLEAN, write2_ok \in BOOLEAN :
         /\ async_set_hvac_mode_sent(call, write_ok, write2_ok)
         /\ UNCHANGED <<sent, setup>>
    \/ \E call \in BagToSet(calls), write_ok \in BOOLEAN :
         /\ async_set_hvac_mode_failed(call, write_ok)
         /\ UNCHANGED <<sent, setup>>
    \/ \E preset_mode \in PresetModeArgs :
         /\ async_set_preset_mode(preset_mode)
         /\ UNCHANGED <<sent, setup>>
    \/ \E call \in BagToSet(calls), write_ok \in BOOLEAN :
         /\ async_set_preset_mode_sent(call, write_ok)
         /\ UNCHANGED <<sent, setup>>
    \/ \E call \in BagToSet(calls) :
         /\ async_set_preset_mode_failed(call)
         /\ UNCHANGED <<sent, setup>>
    \/ \E temperature \in TemperatureArgs :
         /\ async_set_temperature(temperature)
         /\ UNCHANGED <<sent, setup>>
    \/ \E call \in BagToSet(calls) :
         /\ async_set_temperature_sent(call)
         /\ UNCHANGED <<sent, setup>>
    \/ \E call \in BagToSet(calls) :
         /\ async_set_temperature_failed(call)
         /\ UNCHANGED <<sent, setup>>

Spec == Init /\ [][Next]_vars

----------------------------------------------------------------------------
\* The reconciler alone, from the entity states the commands, the updates and
\* the constructor leave.

PriorModes ==
    {<<HVACMode_OFF, PRESET_ECO, HVACAction_OFF>>,
     <<HVACMode_OFF, PRESET_NONE, HVACAction_OFF>>,
     <<HVACMode_OFF, "boost", HVACAction_OFF>>,
     <<HVACMode_HEAT, PRESET_ECO, HVACAction_HEATING>>,
     <<HVACMode_HEAT, PRESET_COMFORT, HVACAction_HEATING>>}

InitUpdate ==
    /\ \E mpa \in PriorModes :
         /\ _attr_hvac_mode = mpa[1]
         /\ _attr_preset_mode = mpa[2]
         /\ _attr_hvac_action = mpa[3]
    /\ _attr_current_temperature \in {200, 50}
    /\ _current_temp = _attr_current_temperature
    /\ _attr_target_temperature \in {210, 70, 350}
    /\ _target_temp = _attr_target_temperature
    /\ _available \in BOOLEAN
    /\ _device_status = Dict(0)
    /\ _online = Bool(TRUE)
    /\ _last_seen = None
    /\ _device_model = None
    /\ _device_category = Category(None)
    /\ calls = EmptyBag
    /\ last = Step("__init__", "", NoState, "", None, "none", "returned", 0, 0)
    /\ AtRest

NextUpdate ==
    \E state \in UpdateStates, write_ok \in BOOLEAN :
      /\ _handle_update(state, write_ok)
      /\ UNCHANGED <<sent, setup>>

SpecUpdate == InitUpdate /\ [][NextUpdate]_vars

----------------------------------------------------------------------------
\* The temperatures: updates that deliver every kind of temperature under
\* either key, between and during the commands.

TemperatureUpdates ==
    {NoState}
    \cup {[k \in {"temp"} |-> v] : v \in Temperatures}
    \cup {[k \in {"um_max_temp"} |-> v] : v \in Temperatures}
    \cup {[temp |-> Num(351), um_max_temp |-> Num(49), status |-> Str(ice)]}

NextTemperature ==
    \/ \E state \in TemperatureUpdates, write_ok \in BOOLEAN :
         /\ _handle_update(state, write_ok)
         /\ UNCHANGED <<sent, setup>>
    \/ /\ async_turn_on
       /\ UNCHANGED <<sent, setup>>
    \/ \E call \in BagToSet(calls), write_ok \in BOOLEAN, write2_ok \in BOOLEAN :
         /\ async_set_hvac_mode_sent(call, write_ok, write2_ok)
         /\ UNCHANGED <<sent, setup>>
    \/ \E call \in BagToSet(calls), write_ok \in BOOLEAN :
         /\ async_set_hvac_mode_failed(call, write_ok)
         /\ UNCHANGED <<sent, setup>>
    \/ /\ async_set_preset_mode(PRESET_ECO)
       /\ UNCHANGED <<sent, setup>>
    \/ \E call \in BagToSet(calls), write_ok \in BOOLEAN :
         /\ async_set_preset_mode_sent(call, write_ok)
         /\ UNCHANGED <<sent, setup>>
    \/ \E call \in BagToSet(calls) :
         /\ async_set_preset_mode_failed(call)
         /\ UNCHANGED <<sent, setup>>
    \/ \E temperature \in TemperatureArgs :
         /\ async_set_temperature(temperature)
         /\ UNCHANGED <<sent, setup>>
    \/ \E call \in BagToSet(calls) :
         /\ async_set_temperature_sent(call)
         /\ UNCHANGED <<sent, setup>>
    \/ \E call \in BagToSet(calls) :
         /\ async_set_temperature_failed(call)
         /\ UNCHANGED <<sent, setup>>

SpecTemperature == Init /\ [][NextTemperature]_vars

----------------------------------------------------------------------------
\* The echo: the device channel delivering back what the mode and preset
\* commands send on it, whole or the status alone.

EchoUpdates ==
    {WireComfort, WireEco,
     [k \in {"status"} |-> WireComfort.status],
     [k \in {"status"} |-> WireEco.status]}

NextEcho ==
    \/ \E state \in EchoUpdates, write_ok \in BOOLEAN :
         /\ _handle_update(state, write_ok)
         /\ UNCHANGED <<sent, setup>>
    \/ \E hvac_mode \in HVAC_MODES :
         /\ async_set_hvac_mode(hvac_mode, "set_hvac_mode")
         /\ UNCHANGED <<sent, setup>>
    \/ \E call \in BagToSet(calls), write_ok \in BOOLEAN, write2_ok \in BOOLEAN :
         /\ async_set_hvac_mode_sent(call, write_ok, write2_ok)
         /\ UNCHANGED <<sent, setup>>
    \/ \E call \in BagToSet(calls), write_ok \in BOOLEAN :
         /\ async_set_hvac_mode_failed(call, write_ok)
         /\ UNCHANGED <<sent, setup>>
    \/ \E preset_mode \in PRESET_MODES :
         /\ async_set_preset_mode(preset_mode)
         /\ UNCHANGED <<sent, setup>>
    \/ \E call \in BagToSet(calls), write_ok \in BOOLEAN :
         /\ async_set_preset_mode_sent(call, write_ok)
         /\ UNCHANGED <<sent, setup>>
    \/ \E call \in BagToSet(calls) :
         /\ async_set_preset_mode_failed(call)
         /\ UNCHANGED <<sent, setup>>

SpecEcho == Init /\ [][NextEcho]_vars

----------------------------------------------------------------------------
\* Overlapping mode and preset commands whose sends all return, with what
\* ws.send was last called with followed in sent.

\* The updates of the ws.send call this step makes.
Sent ==
    (CHOOSE call \in BagToSet(calls') : calls' = Called(call)).updates

NextOverlap ==
    \/ \E state \in EchoUpdates, write_ok \in BOOLEAN :
         /\ _handle_update(state, write_ok)
         /\ UNCHANGED <<sent, setup>>
    \/ \E hvac_mode \in HVAC_MODES :
         /\ async_set_hvac_mode(hvac_mode, "set_hvac_mode")
         /\ sent' = Sent
         /\ UNCHANGED setup
    \/ \E call \in BagToSet(calls), write_ok \in BOOLEAN, write2_ok \in BOOLEAN :
         /\ async_set_hvac_mode_sent(call, write_ok, write2_ok)
         /\ UNCHANGED <<sent, setup>>
    \/ \E preset_mode \in PRESET_MODES :
         /\ async_set_preset_mode(preset_mode)
         /\ sent' = Sent
         /\ UNCHANGED setup
    \/ \E call \in BagToSet(calls), write_ok \in BOOLEAN :
         /\ async_set_preset_mode_sent(call, write_ok)
         /\ UNCHANGED <<sent, setup>>

SpecOverlap == Init /\ [][NextOverlap]_vars

----------------------------------------------------------------------------
\* The category: entities constructed from every kind of model string, then
\* updated and commanded.

Radiator_Plus_X2 == <<"R", "a", "d", "i", "a", "t", "o", "r", " ", "P", "l", "u", "s", " ", "X", "2">>
TOWEL_radiator   == <<"T", "O", "W", "E", "L", " ", "r", "a", "d", "i", "a", "t", "o", "r">>
towel_5          == <<"t", "o", "w", "e", "l", " ", "5">>
Series_D         == <<"S", "e", "r", "i", "e", "s", " ", "D">>

\* device_info.get("model") of a record the constructor accepts.
DeviceModels ==
    {None, Str(<<>>), Str(Radiator_Plus_X2), Str(TOWEL_radiator),
     Str(towel_5), Str(Series_D), Str(radiator)}

InitCategory ==
    /\ \E device_model \in DeviceModels : __init__(device_model)
    /\ AtRest

NextCategory ==
    \/ NextEcho
    \/ \E temperature \in {Num(69), Num(70)} :
         /\ async_set_temperature(temperature)
         /\ UNCHANGED <<sent, setup>>
    \/ \E call \in BagToSet(calls) :
         /\ async_set_temperature_sent(call)
         /\ UNCHANGED <<sent, setup>>
    \/ \E call \in BagToSet(calls) :
         /\ async_set_temperature_failed(call)
         /\ UNCHANGED <<sent, setup>>

SpecCategory == InitCategory /\ [][NextCategory]_vars

----------------------------------------------------------------------------
\* async_setup_entry

d1 == <<"d", "1">>
d2 == <<"d", "2">>
d3 == <<"d", "3">>

\* The device records: None in place of a record, records with an id (with
\* and without a model), records whose id is absent, None or empty, and a
\* record whose model is a number.
DeviceRecords ==
    {None,
     [k \in {"id"} |-> Str(d1)],
     [id |-> Str(d2), model |-> Str(Radiator_Plus_X2)],
     [k \in {"model"} |-> Str(towel_5)],
     [k \in {"id"} |-> None],
     [k \in {"id"} |-> Str(<<>>)],
     [id |-> Str(d3), model |-> Num(5)]}

DeviceLists ==
    UNION {[1..n -> DeviceRecords] : n \in 0..MaxDevices}

\* dev has a get method.
IsMapping(dev) == "t" \notin DOMAIN dev

\* RointeHeater(hass, ws, device_id, entity_name, dev) when it returns.
RointeHeater(dev) ==
    [device_id |-> dev["id"],
     _device_model |-> Get(dev, "model", None),
     _device_category |-> Category(Get(dev, "model", None))]

\* The body of the for loop appends an entity: no dev.get raises, the id is
\* true, the constructor returns.
Created(dev) ==
    /\ IsMapping(dev)
    /\ Truthy(Get(dev, "id", None))
    /\ ~ConstructionRaises(Get(dev, "model", None))

\* From the call to the for loop, or to the return on an empty list.
async_setup_entry ==
    /\ pc = "entry"
    /\ IF ~(devices # <<>>)
         THEN /\ pc' = "done"
              /\ UNCHANGED <<index, entities>>
         ELSE /\ entities' = <<>>
              /\ index' = 1
              /\ pc' = "for"
    /\ UNCHANGED <<devices, added, heater, sent>>

\* The first bad record ends the loop and the setup.
async_setup_entry_for_aborts ==
    /\ pc = "for"
    /\ index <= Len(devices)
    /\ IF Created(devices[index])
         THEN /\ entities' = Append(entities, RointeHeater(devices[index]))
              /\ index' = index + 1
              /\ pc' = pc
         ELSE /\ pc' = "done"
              /\ UNCHANGED <<entities, index>>
    /\ UNCHANGED <<devices, added, heater, sent>>

\* One iteration of the for loop.
async_setup_entry_for ==
    /\ pc = "for"
    /\ index <= Len(devices)
    /\ entities' = IF Created(devices[index])
                     THEN Append(entities, RointeHeater(devices[index]))
                     ELSE entities
    /\ index' = index + 1
    /\ UNCHANGED <<devices, added, pc, heater, sent>>

\* After the loop: the one call of async_add_entities, if there are entities.
async_setup_entry_add ==
    /\ pc = "for"
    /\ index > Len(devices)
    /\ added' = IF entities # <<>> THEN Append(added, entities) ELSE added
    /\ pc' = "done"
    /\ UNCHANGED <<devices, index, entities, heater, sent>>

InitSetup ==
    /\ __init__(None)
    /\ sent = None
    /\ devices \in DeviceLists
    /\ index = 0
    /\ entities = <<>>
    /\ added = <<>>
    /\ pc = "entry"

NextSetup ==
    \/ async_setup_entry
    \/ async_setup_entry_for
    \/ async_setup_entry_add

SpecSetup == InitSetup /\ [][NextSetup]_vars

----------------------------------------------------------------------------
\* The properties.

mpa == <<_attr_hvac_mode, _attr_preset_mode, _attr_hvac_action>>

\* C1: in every reachable state, mode = HEAT implies preset is ECO or COMFORT,
\* and mode = OFF implies preset is None and action is OFF.
C1_ModePresetConsistent ==
    /\ _attr_hvac_mode = HVACMode_HEAT
         => _attr_preset_mode \in {PRESET_ECO, PRESET_COMFORT}
    /\ _attr_hvac_mode = HVACMode_OFF
         => _attr_preset_mode = PRESET_NONE /\ _attr_hvac_action = HVACAction_OFF

\* C2: _handle_update with a string status, whatever its case, leaves
\* (HEAT, COMFORT, HEATING) for "comfort", (HEAT, ECO, HEATING) for "eco",
\* (OFF, None, OFF) for "ice", and for every other string the prior mode,
\* preset and action.
C2_StatusMapping ==
    [][ (/\ last'.op = "_handle_update"
         /\ "status" \in DOMAIN last'.state
         /\ last'.state["status"].t = "str")
        => LET status == last'.state["status"].s IN
           IF status \in {comfort, Comfort_mixed}
             THEN mpa' = <<HVACMode_HEAT, PRESET_COMFORT, HVACAction_HEATING>>
           ELSE IF status \in {eco, ECO_upper}
             THEN mpa' = <<HVACMode_HEAT, PRESET_ECO, HVACAction_HEATING>>
           ELSE IF status \in {ice, Ice_mixed}
             THEN mpa' = <<HVACMode_OFF, PRESET_NONE, HVACAction_OFF>>
           ELSE mpa' = mpa ]_vars

\* An update whose status is "Comfort" has been handled and left
\* (HEAT, COMFORT, HEATING).
C2_Witness ==
    /\ last.op = "_handle_update"
    /\ DOMAIN last.state = {"status"}
    /\ last.state["status"] = Str(Comfort_mixed)
    /\ mpa = <<HVACMode_HEAT, PRESET_COMFORT, HVACAction_HEATING>>

\* v is a number with 5 <= v <= 35.
C3_Numeric5to35(v) == v.t = "num" /\ 50 <= v.n /\ v.n <= 350

\* C3: an update sets the current temperature to its "temp" value, and the
\* target temperature to its "um_max_temp" value, iff the value is a number
\* in [5, 35]; otherwise the value is dropped, and an update of that one key
\* leaves both temperatures, mode, preset and action as they were.
C3_TemperatureAccepted ==
    [][ last'.op = "_handle_update"
        => LET state == last'.state IN
           /\ "temp" \in DOMAIN state
                => LET now == IF C3_Numeric5to35(state["temp"])
                                THEN state["temp"].n
                                ELSE _attr_current_temperature
                   IN _attr_current_temperature' = now /\ _current_temp' = now
           /\ "um_max_temp" \in DOMAIN state
                => LET now == IF C3_Numeric5to35(state["um_max_temp"])
                                THEN state["um_max_temp"].n
                                ELSE _attr_target_temperature
                   IN _attr_target_temperature' = now /\ _target_temp' = now
           /\ \A key \in {"temp", "um_max_temp"} :
                (DOMAIN state = {key} /\ ~C3_Numeric5to35(state[key]))
                  => UNCHANGED entity
           /\ DOMAIN state = {"temp"}
                => UNCHANGED <<_attr_target_temperature, _target_temp, mpa>>
           /\ DOMAIN state = {"um_max_temp"}
                => UNCHANGED <<_attr_current_temperature, _current_temp, mpa>>
      ]_vars

\* An update {"temp": 35} has been handled and the current temperature is 35.
C3_Witness ==
    /\ last.op = "_handle_update"
    /\ DOMAIN last.state = {"temp"}
    /\ last.state["temp"] = Num(350)
    /\ _attr_current_temperature = 350
    /\ _current_temp = 350

\* What a command leaves alone when it changes no field of the entity.
NoMutation ==
    UNCHANGED <<entity, _available, _device_status, _online, _last_seen>>

\* The step called ws.send exactly once, with updates for this device.
SendsExactly(updates) ==
    \E call \in BagToSet(calls') :
      /\ calls' = calls (+) SetToBag({call})
      /\ call.device_id = device_id
      /\ call.updates = updates

\* C4: set_temperature(v) with v outside [7, 30] sends nothing, changes no
\* field and raises nothing; with 7 <= v <= 30 it sends exactly one message
\* {um_max_temp: v} for this device and the target temperature becomes v, and
\* the return of the send adds no message and changes no field.
C4_SetTemperature ==
    [][ (/\ last'.op = "set_temperature"
         /\ last'.temperature.t \in {"num", "nan"})
        => LET v == last'.temperature
               inside == v.t = "num" /\ 70 <= v.n /\ v.n <= 300
           IN
           /\ (last'.send \in {"none", "called"} /\ ~inside)
                => /\ calls' = calls
                   /\ NoMutation
                   /\ last'.outcome = "returned"
                   /\ last'.send = "none"
           /\ (last'.send \in {"none", "called"} /\ inside)
                => /\ SendsExactly([um_max_temp |-> v])
                   /\ _attr_target_temperature' = v.n
                   /\ _target_temp' = v.n
           /\ last'.send = "returned"
                => /\ BagCardinality(calls') = BagCardinality(calls) - 1
                   /\ NoMutation
                   /\ last'.outcome = "returned"
      ]_vars

\* set_temperature(30) has sent its message, the send has returned, and the
\* target temperature is 30.
C4_Witness ==
    /\ last.op = "set_temperature"
    /\ last.send = "returned"
    /\ last.temperature = Num(300)
    /\ _attr_target_temperature = 300
    /\ _target_temp = 300

\* C5: set_hvac_mode(HEAT) sends exactly {status: "comfort", power: 2} and,
\* once the send has returned, leaves (HEAT, COMFORT, HEATING);
\* set_hvac_mode(OFF) sends exactly {status: "eco", power: 1} and leaves
\* (OFF, None, OFF); async_turn_on and async_turn_off do as
\* set_hvac_mode(HEAT) and set_hvac_mode(OFF).
C5_SetHvacMode ==
    [][ (/\ last'.op = "set_hvac_mode"
         /\ last'.arg \in {HVACMode_HEAT, HVACMode_OFF})
        => /\ last'.via = "turn_on" => last'.arg = HVACMode_HEAT
           /\ last'.via = "turn_off" => last'.arg = HVACMode_OFF
           /\ (last'.send = "called" /\ last'.arg = HVACMode_HEAT)
                => SendsExactly([status |-> Str(comfort), power |-> Num(2)])
           /\ (last'.send = "called" /\ last'.arg = HVACMode_OFF)
                => SendsExactly([status |-> Str(eco), power |-> Num(1)])
           /\ (last'.send = "returned" /\ last'.arg = HVACMode_HEAT)
                => /\ mpa' = <<HVACMode_HEAT, PRESET_COMFORT,
                               HVACAction_HEATING>>
                   /\ BagCardinality(calls') = BagCardinality(calls) - 1
           /\ (last'.send = "returned" /\ last'.arg = HVACMode_OFF)
                => /\ mpa' = <<HVACMode_OFF, PRESET_NONE, HVACAction_OFF>>
                   /\ BagCardinality(calls') = BagCardinality(calls) - 1
      ]_vars

\* async_turn_off has sent its message, the send has returned, and the entity
\* is (OFF, None, OFF).
C5_Witness ==
    /\ last.op = "set_hvac_mode"
    /\ last.via = "turn_off"
    /\ last.send = "returned"
    /\ last.outcome = "returned"
    /\ mpa = <<HVACMode_OFF, PRESET_NONE, HVACAction_OFF>>

\* C6: set_preset_mode(COMFORT) sends exactly {status: "comfort", power: 2}
\* and set_preset_mode(ECO) exactly {status: "eco", power: 1}; once the send
\* has returned the preset is the requested one, mode is HEAT and action is
\* HEATING.
C6_SetPresetMode ==
    [][ (last'.op = "set_preset_mode"
         /\ last'.arg \in {PRESET_COMFORT, PRESET_ECO})
        => /\ (last'.send = "called" /\ last'.arg = PRESET_COMFORT)
                => SendsExactly([status |-> Str(comfort), power |-> Num(2)])
           /\ (last'.send = "called" /\ last'.arg = PRESET_ECO)
                => SendsExactly([status |-> Str(eco), power |-> Num(1)])
           /\ last'.send = "returned"
                => /\ mpa' = <<HVACMode_HEAT, last'.arg, HVACAction_HEATING>>
                   /\ BagCardinality(calls') = BagCardinality(calls) - 1
      ]_vars

\* set_preset_mode(ECO) has sent its message, the send has returned, and the
\* entity is (HEAT, ECO, HEATING).
C6_Witness ==
    /\ last.op = "set_preset_mode"
    /\ last.arg = PRESET_ECO
    /\ last.send = "returned"
    /\ last.outcome = "returned"
    /\ mpa = <<HVACMode_HEAT, PRESET_ECO, HVACAction_HEATING>>

\* C7: each of set_hvac_mode, set_preset_mode and set_temperature updates the
\* entity only after its send has returned: the step that calls ws.send, and
\* the step in which the send raises, leave mode, preset, action and the
\* target temperature as they were.
C7_UpdateAfterSend ==
    [][ (/\ last'.op \in {"set_hvac_mode", "set_preset_mode", "set_temperature"}
         /\ last'.send \in {"called", "raised"})
        => UNCHANGED <<mpa, _attr_target_temperature, _target_temp>> ]_vars

\* C8: when the send fails during set_hvac_mode or set_preset_mode, a
\* state-write notification is issued, RointeDeviceError is raised (unless that
\* state write itself raises), and mode, preset, action and both temperatures
\* are as before the command.
C8_FailedSendRepublished ==
    [][ (/\ last'.op \in {"set_hvac_mode", "set_preset_mode"}
         /\ last'.send = "raised")
        => /\ last'.writes >= 1
           /\ last'.outcome \in {"RointeDeviceError", "write error"}
           /\ UNCHANGED entity ]_vars

\* C9: a failed send of set_hvac_mode sets the availability flag to false, and
\* the flag stays false until an update is handled; a failed send of
\* set_preset_mode leaves the flag as it was.
C9_Availability ==
    [][ /\ (last'.op = "set_hvac_mode" /\ last'.send = "raised")
             => _available' = FALSE
        /\ (last'.op = "set_preset_mode" /\ last'.send = "raised")
             => _available' = _available
        /\ (_available = FALSE /\ last'.op # "_handle_update")
             => _available' = FALSE ]_vars

\* The send of a set_hvac_mode has raised and the entity is unavailable.
C9_Witness ==
    /\ last.op = "set_hvac_mode"
    /\ last.send = "raised"
    /\ _available = FALSE

\* C10: when the send fails during set_temperature, the transport error
\* reaches the caller as it is, the availability flag is not changed and no
\* state write is issued or scheduled.
C10_TemperatureFailure ==
    [][ (last'.op = "set_temperature" /\ last'.send = "raised")
        => /\ last'.outcome = "transport error"
           /\ _available' = _available
           /\ last'.writes = 0
           /\ last'.scheduled = 0 ]_vars

\* The send of set_temperature(7) has raised; the entity is still available.
C10_Witness ==
    /\ last.op = "set_temperature"
    /\ last.send = "raised"
    /\ last.temperature = Num(70)
    /\ last.outcome = "transport error"
    /\ _available = TRUE

\* C11: when _handle_update raises at some step, the final state write
\* included, nothing reaches the dispatcher, the availability flag is not set
\* to false, and the update is dropped: both temperatures, mode, preset and
\* action are as before the update.
C11_FailedUpdateDropped ==
    [][ (last'.op = "_handle_update" /\ last'.outcome = "caught")
        => /\ _available' = TRUE \/ _available' = _available
           /\ UNCHANGED entity ]_vars

\* C12: every update handled without an exception leaves the availability
\* flag true and issues exactly one state write, whatever its keys and
\* whether its values were accepted; so an entity a failed set_hvac_mode made
\* unavailable is available again after the next handled update.
C12_UpdateMakesAvailable ==
    [][ (last'.op = "_handle_update" /\ last'.outcome = "returned")
        => /\ _available' = TRUE
           /\ last'.writes = 1
           /\ last'.scheduled = 0 ]_vars

\* An update whose target temperature was out of range has been handled
\* without an exception and the entity is available.
C12_Witness ==
    /\ last.op = "_handle_update"
    /\ last.outcome = "returned"
    /\ DOMAIN last.state = {"um_max_temp"}
    /\ last.state["um_max_temp"] = Num(351)
    /\ last.writes = 1
    /\ _available = TRUE

\* C13: _handle_update changes only the fields whose keys the mapping holds:
\* with temp, um_max_temp, status, deviceStatus, online or lastSeen absent,
\* the current temperature, the target temperature, (mode, preset, action),
\* the device status, online or last seen is as before; deviceStatus, online
\* and lastSeen are copied as they are when present; other keys change
\* nothing.
C13_OnlyPresentKeys ==
    [][ last'.op = "_handle_update"
        => LET state == last'.state IN
           /\ "temp" \notin DOMAIN state
                => UNCHANGED <<_attr_current_temperature, _current_temp>>
           /\ "um_max_temp" \notin DOMAIN state
                => UNCHANGED <<_attr_target_temperature, _target_temp>>
           /\ "status" \notin DOMAIN state => UNCHANGED mpa
           /\ _device_status' = IF "deviceStatus" \in DOMAIN state
                                  THEN state["deviceStatus"]
                                  ELSE _device_status
           /\ _online' = IF "online" \in DOMAIN state
                           THEN state["online"] ELSE _online
           /\ _last_seen' = IF "lastSeen" \in DOMAIN state
                              THEN state["lastSeen"] ELSE _last_seen
           /\ DOMAIN state \subseteq {"rssi"}
                => UNCHANGED <<entity, _device_status, _online, _last_seen>>
      ]_vars

\* An update {"online": False} has been handled: online is False, the device
\* status and last seen are those of the constructor.
C13_Witness ==
    /\ last.op = "_handle_update"
    /\ DOMAIN last.state = {"online"}
    /\ last.state["online"] = Bool(FALSE)
    /\ _online = Bool(FALSE)
    /\ _device_status = Dict(0)
    /\ _last_seen = None

\* C17: in every reachable state the stored action is HEATING exactly when
\* mode is HEAT and OFF exactly when mode is OFF, so the hvac_action property
\* and the stored action agree.
C17_ActionFollowsMode ==
    /\ _attr_hvac_action = HVACAction_HEATING <=> _attr_hvac_mode = HVACMode_HEAT
    /\ _attr_hvac_action = HVACAction_OFF <=> _attr_hvac_mode = HVACMode_OFF
    /\ hvac_action = _attr_hvac_action

\* set_preset_mode("boost") has run to its end and left mode OFF with action
\* OFF.
C17_Witness ==
    /\ last.op = "set_preset_mode"
    /\ last.arg = "boost"
    /\ last.send = "returned"
    /\ _attr_hvac_mode = HVACMode_OFF
    /\ _attr_hvac_action = HVACAction_OFF

\* C20: set_hvac_mode with a mode outside {OFF, HEAT} and set_preset_mode with
\* a preset outside {ECO, COMFORT} send nothing, change no field, issue no
\* state write and raise nothing.
C20_UndeclaredValueNoOp ==
    [][ (\/ last'.op = "set_hvac_mode" /\ last'.arg \notin {"off", "heat"}
         \/ last'.op = "set_preset_mode" /\ last'.arg \notin {"eco", "comfort"})
        => /\ calls' = calls
           /\ NoMutation
           /\ last'.send = "none"
           /\ last'.outcome = "returned"
           /\ last'.writes = 0
           /\ last'.scheduled = 0 ]_vars

\* Current and target temperature, stored and backing, within [5,35].
C16_Range ==
    /\ 50 <= _attr_current_temperature /\ _attr_current_temperature <= 350
    /\ 50 <= _current_temp /\ _current_temp <= 350
    /\ 50 <= _attr_target_temperature /\ _attr_target_temperature <= 350
    /\ 50 <= _target_temp /\ _target_temp <= 350

\* C16: from construction on and after every step (update or command,
\* successful or failed) current and target temperature lie in [5,35], and a
\* step in which set_temperature writes the target leaves it in [7,30]; every
\* other step either leaves the target alone or is an update.
C16_TemperatureRanges ==
    /\ C16_Range
    /\ [][ /\ C16_Range'
           /\ (last'.op = "set_temperature" /\ last'.send = "called")
                => /\ 70 <= _attr_target_temperature'
                   /\ _attr_target_temperature' <= 300
                   /\ _target_temp' = _attr_target_temperature'
           /\ (last'.op # "_handle_update"
               /\ ~(last'.op = "set_temperature" /\ last'.send = "called"))
                => UNCHANGED <<_attr_target_temperature, _target_temp,
                               _attr_current_temperature, _current_temp>> ]_vars

\* An update has put the current temperature at 35, set_temperature(30) has
\* written the target, and its send has failed.
C16_Witness ==
    /\ last.op = "set_temperature"
    /\ last.send = "raised"
    /\ last.temperature = Num(300)
    /\ _attr_target_temperature = 300
    /\ _attr_current_temperature = 350

\* The status the command recorded in step sent on the device channel.
C18_SentStatus(step) ==
    IF step.op = "set_hvac_mode"
      THEN hvac_updates(step.arg)["status"]
      ELSE preset_updates(step.arg)["status"]

\* C18: when set_hvac_mode(m), m in {HEAT, OFF}, or set_preset_mode(p), p in
\* {ECO, COMFORT}, has just succeeded and the next step is an update that
\* delivers the status value the command sent and is handled to its end, the
\* update leaves mode, preset and action as the command left them.
C18_EchoRoundTrip ==
    [][ (/\ \/ last.op = "set_hvac_mode" /\ last.arg \in HVAC_MODES
            \/ last.op = "set_preset_mode" /\ last.arg \in PRESET_MODES
         /\ last.send = "returned"
         /\ last.outcome = "returned"
         /\ last'.op = "_handle_update"
         /\ last'.outcome = "returned"
         /\ "status" \in DOMAIN last'.state
         /\ last'.state["status"] = C18_SentStatus(last))
        => mpa' = mpa ]_vars

\* The record has an id: a mapping whose "id" is a non-empty string.
C14_HasId(dev) ==
    /\ "id" \in DOMAIN dev
    /\ dev["id"].t = "str"
    /\ dev["id"].s # <<>>

\* The record has an id and its construction does not raise.
C14_Good(dev) ==
    /\ C14_HasId(dev)
    /\ ~ConstructionRaises(IF "model" \in DOMAIN dev THEN dev["model"] ELSE None)

\* C14: when async_setup_entry is done, the entities are those of the records
\* that have an id and whose construction does not raise, one each and in
\* order, whatever bad records stand before them; they were handed over in
\* one add call, and no add call was made when there is none.  At no time
\* has more than one add call been made.
C14_SetupSkipsBadRecords ==
    /\ Len(added) <= 1
    /\ pc = "done" =>
         LET good == SelectSeq(devices, C14_Good) IN
         /\ Len(entities) = Len(good)
         /\ \A i \in 1..Len(good) : entities[i].device_id = good[i]["id"]
         /\ added = IF good = <<>> THEN <<>> ELSE <<entities>>

\* The setup is done over a record without id, a record whose construction
\* raises and a valid record, in this order: one entity, one add call.
C14_Witness ==
    /\ pc = "done"
    /\ Len(devices) = 3
    /\ devices[1] = [k \in {"model"} |-> Str(towel_5)]
    /\ devices[2] = [id |-> Str(d3), model |-> Num(5)]
    /\ devices[3] = [k \in {"id"} |-> Str(d1)]
    /\ Len(entities) = 1
    /\ entities[1].device_id = Str(d1)
    /\ added = <<entities>>

\* C15: the category is the label of the first entry of DEVICE_MODELS whose
\* key is, letter case aside, a substring of the model; it is "radiator" when
\* the model is absent (None or empty) or no entry matches; and no step
\* changes it.
C15_Category ==
    /\ LET model == _device_model
           Hit(i) == /\ model.t = "str"
                     /\ IsSubstring(Lower(DEVICE_MODELS[i][1]), Lower(model.s))
       IN
       /\ \A i \in 1..Len(DEVICE_MODELS) :
            (Hit(i) /\ model.s # <<>> /\ \A j \in 1..(i - 1) : ~Hit(j))
              => _device_category = DEVICE_MODELS[i][2]
       /\ (model = None \/ \A i \in 1..Len(DEVICE_MODELS) : ~Hit(i))
            => _device_category = "radiator"
    /\ [][_device_category' = _device_category]_vars

\* An entity whose model matches both entries has the category of the first,
\* after an update and a command.
C15_Witness ==
    /\ _device_model = Str(TOWEL_radiator)
    /\ _device_category = "towel_rail"
    /\ last.op = "set_preset_mode"
    /\ last.send = "returned"
    /\ _attr_preset_mode = PRESET_COMFORT

\* The (mode, preset) a declared command leaves, if the command sends updates.
C19_Corresponds(updates) ==
    \/ \E hvac_mode \in HVAC_MODES :
         /\ hvac_updates(hvac_mode) = updates
         /\ <<_attr_hvac_mode, _attr_preset_mode>>
              = <<hvac_result(hvac_mode)[1], hvac_result(hvac_mode)[2]>>
    \/ \E preset_mode \in PRESET_MODES :
         /\ preset_updates(preset_mode) = updates
         /\ <<_attr_hvac_mode, _attr_preset_mode>>
              = <<preset_result(preset_mode)[1], preset_result(preset_mode)[2]>>

\* C19: when the last awaited send returns (commands may have overlapped and
\* updates may have come in between), mode and preset correspond to the
\* message that was sent last.
C19_LastSentWins ==
    [][ (calls # EmptyBag /\ calls' = EmptyBag /\ last'.send = "returned")
        => C19_Corresponds(sent)' ]_vars

\* The (mode, preset, action) the command of step leaves.
C19_Result(step) ==
    IF step.op = "set_hvac_mode" THEN hvac_result(step.arg)
    ELSE preset_result(step.arg)

\* C19 amended: when the last awaited send returns, mode and preset are those
\* of the command whose send returned last, whichever message was sent last.
C19_LastCompletedWins ==
    [][ (calls # EmptyBag /\ calls' = EmptyBag /\ last'.send = "returned")
        => /\ _attr_hvac_mode' = C19_Result(last')[1]
           /\ _attr_preset_mode' = C19_Result(last')[2] ]_vars

\* set_hvac_mode(HEAT) was called, then set_preset_mode(ECO); the send of the
\* second returned first: nothing is awaited, the message sent last is that
\* of ECO and the entity is in (HEAT, COMFORT).
C19_Witness ==
    /\ calls = EmptyBag
    /\ last.op = "set_hvac_mode"
    /\ last.arg = HVACMode_HEAT
    /\ last.send = "returned"
    /\ sent = WireEco
    /\ _attr_hvac_mode = HVACMode_HEAT
    /\ _attr_preset_mode = PRESET_COMFORT

====
